---- MODULE Spec2Model ----
(***************************************************************************)
(* Model of the crowd-funding front end: js/donate.js (window.donate,      *)
(* loadTransactions), js/dashboard.js (window.createCampaign),             *)
(* js/campaign.js (loadTransactions) and js/auth.js (window.login),        *)
(* running in several browser clients against one shared document store    *)
(* with the two collections "campaigns" and "transactions".                *)
(*                                                                         *)
(* Every `await` of a store call is a scheduling point: the store applies  *)
(* the call at some moment between its issue and the resumption of the     *)
(* caller, and calls of other clients may be applied in between.           *)
(*                                                                         *)
(* Strings that the code parses or trims are sequences of one-character    *)
(* strings; JavaScript numbers are records so that NaN and Infinity are    *)
(* values of their own.                                                    *)
(***************************************************************************)
EXTENDS Integers, Sequences, FiniteSets, TLC

(* ------------------------------ bounds -------------------------------- *)

\* browser clients (tabs) that can have a call in flight at the same time
NumClients == 2
\* campaigns that createCampaign may insert in one run
MaxCampaigns == 2
\* donate calls that pass validation in one run
MaxDonations == 2
\* last value of the millisecond clock
MaxTime == 2
\* accounts of the identity provider
NumUsers == 1

Clients == 1..NumClients

(* ------------------------- JavaScript numbers -------------------------- *)

Num(n) == [k |-> "num", v |-> n]
NaN == [k |-> "nan", v |-> 0]
Infinity == [k |-> "inf", v |-> 1]
NegInfinity == [k |-> "inf", v |-> -1]
Undefined == [k |-> "undef", v |-> 0]

\* a + b on numbers
JSAdd(a, b) ==
  IF a.k = "nan" \/ b.k = "nan" \/ a.k = "undef" \/ b.k = "undef" THEN NaN
  ELSE IF a.k = "inf" /\ b.k = "inf" THEN (IF a.v = b.v THEN a ELSE NaN)
  ELSE IF a.k = "inf" THEN a
  ELSE IF b.k = "inf" THEN b
  ELSE Num(a.v + b.v)

\* a < b on numbers (false when either is NaN)
JSLess(a, b) ==
  /\ a.k \in {"num", "inf"}
  /\ b.k \in {"num", "inf"}
  /\ IF a.k = "inf" THEN a.v = -1 /\ b # NegInfinity
     ELSE IF b.k = "inf" THEN b.v = 1
     ELSE a.v < b.v

\* a <= 0
JSLeqZero(a) == a = Num(0) \/ JSLess(a, Num(0))

\* !a on a number: true for 0 and NaN
JSNot(a) == a = Num(0) \/ a.k = "nan" \/ a.k = "undef"

\* isNaN(a)
JSIsNaN(a) == a.k = "nan" \/ a.k = "undef"

(* -------------------------- JavaScript strings ------------------------- *)

IsSpace(ch) == ch \in {" ", "\t", "\n"}

RECURSIVE TrimStart(_)
TrimStart(s) ==
  IF s # <<>> /\ IsSpace(Head(s)) THEN TrimStart(Tail(s)) ELSE s

RECURSIVE TrimEnd(_)
TrimEnd(s) ==
  IF s # <<>> /\ IsSpace(s[Len(s)]) THEN TrimEnd(SubSeq(s, 1, Len(s) - 1)) ELSE s

\* String.prototype.trim
Trim(s) == TrimEnd(TrimStart(s))

\* String.prototype.substring(from, to), 0-based, to exclusive
Substring(s, from, to) ==
  SubSeq(s, from + 1, IF to < Len(s) THEN to ELSE Len(s))

DigitChars == {"0", "1", "2", "3", "4", "5", "6", "7", "8", "9"}

DigitValue(ch) ==
  CASE ch = "0" -> 0 [] ch = "1" -> 1 [] ch = "2" -> 2 [] ch = "3" -> 3
    [] ch = "4" -> 4 [] ch = "5" -> 5 [] ch = "6" -> 6 [] ch = "7" -> 7
    [] ch = "8" -> 8 [] ch = "9" -> 9

RECURSIVE DecimalValue(_, _)
DecimalValue(s, acc) ==
  IF s = <<>> THEN acc ELSE DecimalValue(Tail(s), acc * 10 + DigitValue(Head(s)))

InfinityChars == <<"I", "n", "f", "i", "n", "i", "t", "y">>

\* Number(s) for a string over digits, sign, white space and letters: white
\* space is trimmed, the empty string is 0, an optional sign is followed by
\* decimal digits or by the word Infinity, anything else is NaN.
Number(s) ==
  LET t == Trim(s)
      signed == t # <<>> /\ Head(t) \in {"+", "-"}
      sign == IF signed /\ Head(t) = "-" THEN -1 ELSE 1
      body == IF signed THEN Tail(t) ELSE t
  IN IF t = <<>> THEN Num(0)
     ELSE IF body = InfinityChars THEN (IF sign = 1 THEN Infinity ELSE NegInfinity)
     ELSE IF body # <<>> /\ \A i \in 1..Len(body) : body[i] \in DigitChars
          THEN Num(sign * DecimalValue(body, 0))
     ELSE NaN

(* ------------------------------- inputs -------------------------------- *)

\* auth.currentUser is read where the code reads it and is an input of the
\* step: the identity provider sets it (window.login on the login page, the
\* restored session at page load).  The repository has no sign-out, so a
\* client that passed the login check still has a user when donate reads
\* auth.currentUser.uid again for the Transaction.
\* no signed-in user: auth.currentUser is null
NoUser == <<>>

\* a login check that lets every caller through
SignedInAlways(user) == TRUE

\* auth.currentUser is not null
SignedIn(user) == user # NoUser

\* the user ids the identity provider hands out
Uid(n) == <<"u", "i", "d", IF n = 1 THEN "A" ELSE IF n = 2 THEN "B" ELSE "C",
            "0", "0", "0", "7">>
Uids == {Uid(n) : n \in 1..NumUsers}

\* what a user may have typed into the amount field
AmountInputs == { <<>>,
                  <<"a", "b", "c">>,
                  <<"0">>,
                  <<"-", "5">>,
                  <<" ", "1", "0", "0", " ">>,
                  <<"3", "0", "0">>,
                  InfinityChars }

\* what a user may have typed into the target field
TargetInputs == { <<>>,
                  <<" ">>,
                  <<"a", "b", "c">>,
                  <<"0">>,
                  <<"-", "5">>,
                  <<"1", "0", "0", "0">> }

\* what a user may have typed into the title, category and description fields
TextInputs == { <<>>, <<" ">>, <<" ", "a", " ">> }

Form(title, category, target, description) ==
  [title |-> title, category |-> category, target |-> target,
   description |-> description]

\* the campaign forms a user may submit: all fields good, and every way of
\* getting one field wrong
GoodText == <<" ", "a", " ">>
GoodTarget == <<"1", "0", "0", "0">>
Forms ==
  {Form(t, GoodText, GoodTarget, GoodText) : t \in TextInputs}
    \cup {Form(GoodText, t, GoodTarget, GoodText) : t \in TextInputs}
    \cup {Form(GoodText, GoodText, GoodTarget, t) : t \in TextInputs}
    \cup {Form(GoodText, GoodText, t, GoodText) : t \in TargetInputs}

\* length of the donor id prefix kept in a Transaction
UserPrefixLen == 6

(* -------------------------------- state -------------------------------- *)

VARIABLES
  campaigns,     \* the "campaigns" collection; a document's id is its index
  transactions,  \* the "transactions" collection, in insertion order
  now,           \* Date.now()
  pc,            \* where each client's call stands
  id,            \* donate.js `id`: the campaign id of the client's page
  amt,           \* donate `amt`
  newRaised,     \* donate `newRaised`
  pending,       \* the document of the addDoc call in flight
  alerted,       \* the alert() on the screen, "none" when there is none
  donations,     \* donate calls that passed validation so far, by campaign id
  disturbed,     \* another donate call on that campaign overlapped this one
  raised0,       \* the campaign's raised when the client's donate call began
  tx0,           \* the campaign's number of Transactions when it began
                 \* (both kept only while the call is not disturbed)
  updates,       \* raised updates the store has applied so far, by campaign id
  names,         \* names[k] is the rank of the document name the store
                 \* generated for transactions[k] among the names in use
  view           \* what the transaction list of each page shows

vars == <<campaigns, transactions, now, pc, id, amt, newRaised,
          pending, alerted, donations, raised0, tx0, disturbed,
          updates, names, view>>

store == <<campaigns, transactions>>
locals == <<id, amt, newRaised, pending>>
listing == <<names, view>>
history == <<raised0, tx0, disturbed>>

\* the alerts of donate and createCampaign
AlertLoginDonate == "Please login first to donate"
AlertAmount == "Please enter a valid amount"
AlertNotFound == "Campaign not found"
AlertDonated == "Donation Successful! Thank you for your contribution."
AlertDonateFailed == "Donation failed: "
AlertLogin == "Please login first"
AlertFields == "Please fill in all fields"
AlertTarget == "Please enter a valid target amount"
AlertCreated == "Campaign Created Successfully"
AlertCreateFailed == "Failed to create campaign: "

NoDoc == [kind |-> "none"]

\* the two pages with a transaction list: donate.js and the older campaign.js
Loaders == {"donate.js", "campaign.js"}

\* a transaction list before loadTransactions has run
NotLoaded == [shown |-> "none", id |-> 0, rows |-> <<>>]

\* the ids a campaign page may carry in its URL: the ids the store has
\* generated so far, and an id that names no document (ids are generated by
\* the store and campaigns are never deleted, so it never comes to name one)
NoSuchId == 0
PageIds == {NoSuchId} \cup (1..Len(campaigns))

\* snap.exists()
Exists(i) == i \in 1..Len(campaigns)

\* the Transactions of campaign i, in insertion order
TxOf(txs, i) == SelectSeq(txs, LAMBDA t : t.campaignId = i)

\* a donate call of client c is between validation and its end
InFlight(c) == pc[c] \in {"getDoc", "updateDoc", "updated", "addDoc"}

\* alert() is modal: the call that shows it does not return until the alert is
\* dismissed.  An alert changes nothing but what is on the screen, so the model
\* lets every client wait for the dismissal.
Quiet == alerted = "none"

\* a call of client c may begin: none is in progress on its page
CanCall(c) == Quiet /\ pc[c] = "idle"

Init ==
  /\ campaigns = <<>>
  /\ transactions = <<>>
  /\ now = 1
  /\ pc = [c \in Clients |-> "idle"]
  /\ id = [c \in Clients |-> NoSuchId]
  /\ amt = [c \in Clients |-> Undefined]
  /\ newRaised = [c \in Clients |-> Undefined]
  /\ pending = [c \in Clients |-> NoDoc]
  /\ alerted = "none"
  /\ donations = [i \in {NoSuchId} \cup (1..MaxCampaigns) |-> 0]
  /\ raised0 = [c \in Clients |-> Undefined]
  /\ tx0 = [c \in Clients |-> 0]
  /\ disturbed = [c \in Clients |-> FALSE]
  /\ updates = [i \in {NoSuchId} \cup (1..MaxCampaigns) |-> 0]
  /\ names = <<>>
  /\ view = [l \in Loaders |-> NotLoaded]

\* the call of client c shows the alert o, its last step before it returns
End(c, o) ==
  /\ pc' = [pc EXCEPT ![c] = "alert"]
  /\ alerted' = o

(* ------------------------------ environment ---------------------------- *)

\* the user dismisses the alert of client c; the call returns and its locals
\* go out of scope
Dismiss(c) ==
  /\ pc[c] = "alert"
  /\ pc' = [pc EXCEPT ![c] = "idle"]
  /\ alerted' = "none"
  /\ id' = [id EXCEPT ![c] = NoSuchId]
  /\ amt' = [amt EXCEPT ![c] = Undefined]
  /\ newRaised' = [newRaised EXCEPT ![c] = Undefined]
  /\ pending' = [pending EXCEPT ![c] = NoDoc]
  /\ raised0' = [raised0 EXCEPT ![c] = Undefined]
  /\ tx0' = [tx0 EXCEPT ![c] = 0]
  /\ disturbed' = [disturbed EXCEPT ![c] = FALSE]
  /\ UNCHANGED <<store, now, donations, updates, listing>>

\* the millisecond clock advances
Tick ==
  /\ Quiet
  /\ now < MaxTime
  /\ now' = now + 1
  /\ UNCHANGED <<store, pc, locals, alerted, donations, updates, listing, history>>

(* -------------------------------- donate ------------------------------- *)

\* the amount check without its `amt <= 0` test
ValidAmountNoSign(a) == ~(JSNot(a) \/ JSIsNaN(a))

\* the amount check of donate
ValidAmount(a) == ~(JSNot(a) \/ JSLeqZero(a) \/ JSIsNaN(a))

\* a slip in the sum: the donation replaces the total instead of adding to it
NewRaisedAmountOnly(raised, a) == a

\* a slip in the sum: the donation is counted twice
NewRaisedTwice(raised, a) == JSAdd(raised, JSAdd(a, a))

\* newRaised = currentData.raised + amt
NewRaised(raised, a) == JSAdd(raised, a)

\* the update as an atomic increment of the stored value, which the code
\* does not use
UpdateRaisedIncrement(cs, i, r, a) == [cs EXCEPT ![i].raised = JSAdd(@, a)]

\* the write as a setDoc without merge, which replaces the whole document by
\* the fields given
UpdateRaisedReplace(cs, i, r, a) ==
  [cs EXCEPT ![i] = [kind |-> "campaign", raised |-> r]]

\* updateDoc(ref, {raised: newRaised}) as the store applies it
UpdateRaised(cs, i, r, a) == [cs EXCEPT ![i].raised = r]

\* the Transaction document donate builds
NewTransaction(i, a, user, time) ==
  [kind |-> "transaction", campaignId |-> i, amount |-> a,
   user |-> Substring(user, 0, UserPrefixLen), time |-> time]

\* a store write under a document id made of the campaign id and the time
\* (setDoc) instead of a generated one: a donation replaces the one recorded
\* for the same campaign in the same millisecond
AddTransactionKeyed(txs, doc) ==
  IF \E k \in 1..Len(txs) :
       txs[k].campaignId = doc.campaignId /\ txs[k].time = doc.time
  THEN [k \in 1..Len(txs) |->
          IF txs[k].campaignId = doc.campaignId /\ txs[k].time = doc.time
          THEN doc ELSE txs[k]]
  ELSE Append(txs, doc)

\* addDoc(collection(db, "transactions"), doc) as the store applies it
AddTransaction(txs, doc) == Append(txs, doc)

RECURSIVE SumOver(_, _)
SumOver(f, S) ==
  IF S = {} THEN 0
  ELSE LET x == CHOOSE y \in S : TRUE IN f[x] + SumOver(f, S \ {x})

\* donate calls that passed validation so far
DonationsSoFar == SumOver(donations, DOMAIN donations)

\* client d's donate call has overlapped another donate call on its campaign
\* once client c begins one on campaign i
Overlapped(d, c, i) ==
  IF d = c THEN \E e \in Clients \ {c} : InFlight(e) /\ id[e] = i
  ELSE disturbed[d] \/ (InFlight(d) /\ id[d] = i)

\* window.donate up to its first await: the login check, the amount check,
\* and the issue of getDoc(ref)
Donate(c, user, i, input) ==
  /\ CanCall(c)
  /\ id' = [id EXCEPT ![c] = i]
  /\ IF ~SignedIn(user)
     THEN End(c, AlertLoginDonate) /\ UNCHANGED <<amt, donations, history>>
     ELSE IF ~ValidAmount(Number(input))
     THEN /\ amt' = [amt EXCEPT ![c] = Number(input)]
          /\ End(c, AlertAmount)
          /\ UNCHANGED <<donations, history>>
     ELSE /\ DonationsSoFar < MaxDonations
          /\ donations' = [donations EXCEPT ![i] = @ + 1]
          /\ amt' = [amt EXCEPT ![c] = Number(input)]
          /\ pc' = [pc EXCEPT ![c] = "getDoc"]
          /\ UNCHANGED alerted
          /\ disturbed' = [d \in Clients |-> Overlapped(d, c, i)]
          /\ raised0' = [d \in Clients |->
                           IF Overlapped(d, c, i) THEN Undefined
                           ELSE IF d # c THEN raised0[d]
                           ELSE IF Exists(i) THEN campaigns[i].raised
                           ELSE Undefined]
          /\ tx0' = [d \in Clients |->
                       IF Overlapped(d, c, i) THEN 0
                       ELSE IF d # c THEN tx0[d]
                       ELSE Len(TxOf(transactions, i))]
  /\ UNCHANGED <<store, now, newRaised, pending, updates, listing>>

\* getDoc(ref) resolves: the campaign is absent
DonateNotFound(c) ==
  /\ Quiet
  /\ pc[c] = "getDoc"
  /\ ~Exists(id[c])
  /\ End(c, AlertNotFound)
  /\ UNCHANGED <<store, now, locals, donations, updates, listing, history>>

\* donate with the append ahead of the write: once getDoc has resolved the
\* Transaction is built and appended, and raised is not written before it
DonateAppendFirst(c) ==
  /\ Quiet
  /\ pc[c] = "getDoc"
  /\ Exists(id[c])
  /\ newRaised' = [newRaised EXCEPT ![c] = JSAdd(campaigns[id[c]].raised, amt[c])]
  /\ pc' = [pc EXCEPT ![c] = "updated"]
  /\ UNCHANGED <<store, now, id, amt, pending, alerted, donations, updates,
                 listing, history>>

\* getDoc(ref) resolves with the campaign; newRaised is computed and
\* updateDoc is issued
DonateGetDoc(c) ==
  /\ Quiet
  /\ pc[c] = "getDoc"
  /\ Exists(id[c])
  /\ newRaised' = [newRaised EXCEPT ![c] = NewRaised(campaigns[id[c]].raised, amt[c])]
  /\ pc' = [pc EXCEPT ![c] = "updateDoc"]
  /\ UNCHANGED <<store, now, id, amt, pending, alerted, donations, updates,
               listing, history>>

\* the store applies updateDoc(ref, {raised: newRaised})
DonateUpdateDoc(c) ==
  /\ Quiet
  /\ pc[c] = "updateDoc"
  /\ Exists(id[c])
  /\ campaigns' = UpdateRaised(campaigns, id[c], newRaised[c], amt[c])
  /\ pc' = [pc EXCEPT ![c] = "updated"]
  /\ updates' = [updates EXCEPT ![id[c]] = @ + 1]
  /\ UNCHANGED <<transactions, now, locals, alerted, donations, listing, history>>

\* donate resumes after updateDoc, builds the Transaction and issues addDoc
DonateAddDocIssue(c, user) ==
  /\ Quiet
  /\ pc[c] = "updated"
  /\ pending' = [pending EXCEPT
                   ![c] = NewTransaction(id[c], amt[c], user, now)]
  /\ pc' = [pc EXCEPT ![c] = "addDoc"]
  /\ UNCHANGED <<store, now, id, amt, newRaised, alerted, donations, updates,
               listing, history>>

\* the document names once a new one of rank r among them is generated
InsertName(ns, r) ==
  Append([k \in 1..Len(ns) |-> IF ns[k] >= r THEN ns[k] + 1 ELSE ns[k]], r)

\* the store applies addDoc under a generated document name of rank r; donate
\* reports success and reloads the page
DonateAddDoc(c, r) ==
  /\ Quiet
  /\ pc[c] = "addDoc"
  /\ transactions' = AddTransaction(transactions, pending[c])
  /\ names' = InsertName(names, r)
  /\ End(c, AlertDonated)
  /\ UNCHANGED <<campaigns, now, locals, donations, updates, view, history>>

\* a catch block that undoes the raised update when the append failed, which
\* the code does not do
CatchDonateRollback(cs, c) ==
  IF pc[c] = "addDoc" /\ ~disturbed[c]
  THEN [cs EXCEPT ![id[c]].raised = raised0[c]]
  ELSE cs

\* a catch block that retries the raised update when it failed, which the
\* code does not do
CatchDonateRetry(cs, c) ==
  IF pc[c] = "updateDoc" /\ Exists(id[c])
  THEN UpdateRaised(cs, id[c], newRaised[c], amt[c])
  ELSE cs

\* what the catch block of donate does to the campaigns: nothing, it logs the
\* error and shows the alert
CatchDonate(cs, c) == cs

\* a store call of donate rejects; the catch block reports it and the call ends
DonateFail(c) ==
  /\ Quiet
  /\ pc[c] \in {"getDoc", "updateDoc", "addDoc"}
  /\ campaigns' = CatchDonate(campaigns, c)
  /\ End(c, AlertDonateFailed)
  /\ UNCHANGED <<transactions, now, locals, donations, updates, listing, history>>

(* ---------------------------- createCampaign --------------------------- *)

\* the "all fields have values" check of createCampaign
FieldsFilled(title, category, target, description) ==
  ~(Trim(title) = <<>> \/ Trim(category) = <<>> \/ target = <<>>
      \/ Trim(description) = <<>>)

\* the target check without its `targetAmount <= 0` test
ValidTargetNotNaN(t) == ~JSIsNaN(t)

\* the target check of createCampaign
ValidTarget(t) == ~(JSIsNaN(t) \/ JSLeqZero(t))

\* the Campaign document with the creator cut like the donor of a Transaction
NewCampaignShortCreator(title, category, target, description, user, time) ==
  [kind |-> "campaign", title |-> Trim(title), category |-> Trim(category),
   target |-> Number(target), raised |-> Num(0),
   description |-> Trim(description),
   creator |-> Substring(user, 0, UserPrefixLen), createdAt |-> time]

\* the Campaign document createCampaign builds
NewCampaign(title, category, target, description, user, time) ==
  [kind |-> "campaign", title |-> Trim(title), category |-> Trim(category),
   target |-> Number(target), raised |-> Num(0),
   description |-> Trim(description), creator |-> user, createdAt |-> time]

\* addDoc(collection(db, "campaigns"), doc) as the store applies it
AddCampaign(cs, doc) == Append(cs, doc)

\* createCampaign calls whose addDoc is in flight
CreatesInFlight == Cardinality({c \in Clients : pc[c] = "addCampaign"})

\* window.createCampaign up to its await: the login check, the field checks,
\* and the issue of addDoc
CreateCampaign(c, user, title, category, target, description) ==
  /\ CanCall(c)
  /\ IF ~SignedIn(user)
     THEN End(c, AlertLogin) /\ UNCHANGED pending
     ELSE IF ~FieldsFilled(title, category, target, description)
     THEN End(c, AlertFields) /\ UNCHANGED pending
     ELSE IF ~ValidTarget(Number(target))
     THEN End(c, AlertTarget) /\ UNCHANGED pending
     ELSE /\ Len(campaigns) + CreatesInFlight < MaxCampaigns
          /\ pending' = [pending EXCEPT
                           ![c] = NewCampaign(title, category, target, description,
                                              user, now)]
          /\ pc' = [pc EXCEPT ![c] = "addCampaign"]
          /\ UNCHANGED alerted
  /\ UNCHANGED <<store, now, id, amt, newRaised, donations, updates, listing, history>>

\* the store applies addDoc; createCampaign reports success
CreateAddDoc(c) ==
  /\ Quiet
  /\ pc[c] = "addCampaign"
  /\ campaigns' = AddCampaign(campaigns, pending[c])
  /\ End(c, AlertCreated)
  /\ UNCHANGED <<transactions, now, locals, donations, updates, listing, history>>

\* addDoc rejects; the catch block reports it and the call ends
CreateFail(c) ==
  /\ Quiet
  /\ pc[c] = "addCampaign"
  /\ End(c, AlertCreateFailed)
  /\ UNCHANGED <<store, now, locals, donations, updates, listing, history>>

(* ----------------------------- specification --------------------------- *)

Next ==
  \/ \E c \in Clients : Dismiss(c)
  \/ Tick
  \/ \E c \in Clients, user \in Uids \cup {NoUser}, i \in PageIds,
        input \in AmountInputs :
       Donate(c, user, i, input)
  \/ \E c \in Clients : DonateNotFound(c)
  \/ \E c \in Clients : DonateGetDoc(c)
  \/ \E c \in Clients : DonateUpdateDoc(c)
  \/ \E c \in Clients, user \in Uids : DonateAddDocIssue(c, user)
  \/ \E c \in Clients, r \in 1..(Len(names) + 1) : DonateAddDoc(c, r)
  \/ \E c \in Clients : DonateFail(c)
  \/ \E c \in Clients, user \in Uids \cup {NoUser}, f \in Forms :
       CreateCampaign(c, user, f.title, f.category, f.target, f.description)
  \/ \E c \in Clients : CreateAddDoc(c)
  \/ \E c \in Clients : CreateFail(c)

Spec == Init /\ [][Next]_vars

\* the steps of the runs in which every store call succeeds
NextNoFail ==
  \/ \E c \in Clients : Dismiss(c)
  \/ Tick
  \/ \E c \in Clients, user \in Uids \cup {NoUser}, i \in PageIds,
        input \in AmountInputs :
       Donate(c, user, i, input)
  \/ \E c \in Clients : DonateNotFound(c)
  \/ \E c \in Clients : DonateGetDoc(c)
  \/ \E c \in Clients : DonateUpdateDoc(c)
  \/ \E c \in Clients, user \in Uids : DonateAddDocIssue(c, user)
  \/ \E c \in Clients, r \in 1..(Len(names) + 1) : DonateAddDoc(c, r)
  \/ \E c \in Clients, user \in Uids \cup {NoUser}, f \in Forms :
       CreateCampaign(c, user, f.title, f.category, f.target, f.description)
  \/ \E c \in Clients : CreateAddDoc(c)

SpecNoFail == Init /\ [][NextNoFail]_vars

(* --------------------------- transaction lists ------------------------- *)

\* Transactions a drawn store content holds at most
MaxListed == 3

\* the documents of the "transactions" collection: name and data
Docs(txs, ns) == [k \in 1..Len(txs) |-> [name |-> ns[k], data |-> txs[k]]]

\* where("campaignId", "==", i)
Where(docs, i) == SelectSeq(docs, LAMBDA d : d.data.campaignId = i)

\* the order of orderBy("time", "desc"): later time first, and among equal
\* times the store orders by document name in the same direction
TimeDesc(a, b) ==
  \/ a.data.time > b.data.time
  \/ a.data.time = b.data.time /\ a.name > b.name

\* the order of orderBy("time"), which is ascending
TimeAsc(a, b) == TimeDesc(b, a)

\* the documents of the set S as the sequence ordered by orderBy("time", "desc")
RECURSIVE OrderByTimeDesc(_)
OrderByTimeDesc(S) ==
  IF S = {} THEN <<>>
  ELSE LET d == CHOOSE x \in S : \A y \in S \ {x} : TimeDesc(x, y)
       IN <<d>> \o OrderByTimeDesc(S \ {d})

\* the documents of the set S as the sequence ordered by orderBy("time")
RECURSIVE OrderByTimeAsc(_)
OrderByTimeAsc(S) ==
  IF S = {} THEN <<>>
  ELSE LET d == CHOOSE x \in S : \A y \in S \ {x} : TimeAsc(x, y)
       IN <<d>> \o OrderByTimeAsc(S \ {d})

\* the elements of a sequence
Range(q) == {q[k] : k \in 1..Len(q)}

\* the query of donate.js: the Transactions of campaign i, newest first
Query(txs, ns, i) == OrderByTimeDesc(Range(Where(Docs(txs, ns), i)))

\* the query of campaign.js with the direction of its orderBy left out
CampaignQueryAscending(txs, ns, i) ==
  OrderByTimeAsc(Range(Where(Docs(txs, ns), i)))

\* the query of campaign.js: the Transactions of campaign i, newest first
CampaignQuery(txs, ns, i) == OrderByTimeDesc(Range(Where(Docs(txs, ns), i)))

\* what a loader shows for the snapshot of its query
Rendered(i, snapshot) ==
  IF snapshot = <<>>
  THEN [shown |-> "No donations yet", id |-> i, rows |-> <<>>]
  ELSE [shown |-> "rows", id |-> i, rows |-> snapshot]

\* loadTransactions of donate.js, which loadCampaignDetails calls once it has
\* found the campaign of the page
LoadTransactions(i) ==
  /\ Exists(i)
  /\ view' = [view EXCEPT
               !["donate.js"] = Rendered(i, Query(transactions, names, i))]
  /\ UNCHANGED <<store, now, pc, locals, alerted, donations, updates, names,
                 history>>

\* loadTransactions of donate.js when getDocs rejects: the catch block shows
\* the error row
LoadTransactionsFail(i) ==
  /\ Exists(i)
  /\ view' = [view EXCEPT
               !["donate.js"] =
                  [shown |-> "Error loading transactions", id |-> i, rows |-> <<>>]]
  /\ UNCHANGED <<store, now, pc, locals, alerted, donations, updates, names,
                 history>>

\* loadTransactions of campaign.js, called when the page loads
CampaignLoadTransactions(i) ==
  /\ view' = [view EXCEPT
               !["campaign.js"] =
                  Rendered(i, CampaignQuery(transactions, names, i))]
  /\ UNCHANGED <<store, now, pc, locals, alerted, donations, updates, names,
                 history>>

\* loadTransactions of campaign.js when getDocs rejects: nothing catches the
\* error and the list stays cleared
CampaignLoadTransactionsFail(i) ==
  /\ view' = [view EXCEPT
               !["campaign.js"] = [shown |-> "", id |-> i, rows |-> <<>>]]
  /\ UNCHANGED <<store, now, pc, locals, alerted, donations, updates, names,
                 history>>

\* the Transactions a store may hold: of either campaign, written at any
\* time of the clock (the time is taken when addDoc is issued, so insertion
\* order need not be time order)
ListedTransactions ==
  {NewTransaction(i, Num(100), u, t) :
     i \in 1..MaxCampaigns, u \in Uids, t \in 1..MaxTime}

\* the ways of ranking n document names
NameRanks(n) == {ns \in [1..n -> 1..n] : \A j, k \in 1..n : ns[j] = ns[k] => j = k}

\* the campaigns of a store whose donations all went through one after the
\* other: raised is the sum of the amounts
ListedCampaigns(txs) ==
  [i \in 1..MaxCampaigns |->
     [NewCampaign(GoodText, GoodText, GoodTarget, GoodText, Uid(1), 1)
        EXCEPT !.raised = Num(100 * Len(TxOf(txs, i)))]]

\* a store content with up to MaxListed Transactions, all calls returned
InitList ==
  /\ transactions \in UNION {[1..n -> ListedTransactions] : n \in 0..MaxListed}
  /\ names \in NameRanks(Len(transactions))
  /\ campaigns = ListedCampaigns(transactions)
  /\ now = MaxTime
  /\ pc = [c \in Clients |-> "idle"]
  /\ id = [c \in Clients |-> NoSuchId]
  /\ amt = [c \in Clients |-> Undefined]
  /\ newRaised = [c \in Clients |-> Undefined]
  /\ pending = [c \in Clients |-> NoDoc]
  /\ alerted = "none"
  /\ donations = [i \in {NoSuchId} \cup (1..MaxCampaigns) |->
                    Len(TxOf(transactions, i))]
  /\ updates = donations
  /\ raised0 = [c \in Clients |-> Undefined]
  /\ tx0 = [c \in Clients |-> 0]
  /\ disturbed = [c \in Clients |-> FALSE]
  /\ view = [l \in Loaders |-> NotLoaded]

NextList ==
  \/ \E i \in PageIds : LoadTransactions(i)
  \/ \E i \in PageIds : LoadTransactionsFail(i)
  \/ \E i \in PageIds : CampaignLoadTransactions(i)
  \/ \E i \in PageIds : CampaignLoadTransactionsFail(i)

\* the transaction lists of the two pages over every store content
SpecList == InitList /\ [][NextList]_vars

(* -------------------------------- claims ------------------------------- *)

\* all calls have returned
AllIdle == \A c \in Clients : pc[c] = "idle"

\* the amounts of the Transactions of campaign i, in insertion order
AmountsOf(i) ==
  LET t == TxOf(transactions, i) IN [k \in 1..Len(t) |-> t[k].amount]

\* the sum of the amounts of a sequence of Transactions
RECURSIVE SumAmounts(_)
SumAmounts(txs) ==
  IF txs = <<>> THEN Num(0) ELSE JSAdd(Head(txs).amount, SumAmounts(Tail(txs)))

\* client c shows the alert o
Shows(c, o) == pc[c] = "alert" /\ alerted = o

\* C1: a donate call on an existing campaign that overlaps no other donate call
\* on that campaign and whose three store calls succeed ends with raised equal
\* to its value at the start of the call plus the amount, and with exactly one
\* more Transaction of that campaign, the newest, carrying the campaign id and
\* the amount.
C1_DonateAddsAmountAndOneTransaction ==
  \A c \in Clients :
    (Shows(c, AlertDonated) /\ ~disturbed[c])
    => LET txs == TxOf(transactions, id[c])
       IN /\ campaigns[id[c]].raised = JSAdd(raised0[c], amt[c])
          /\ Len(txs) = tx0[c] + 1
          /\ txs[Len(txs)].campaignId = id[c]
          /\ txs[Len(txs)].amount = amt[c]

\* C1 witness: a campaign with raised 100 received a donation of 300 that
\* overlapped no other and has just succeeded: raised is 400 and the
\* Transaction of 300 is the newest.
C1_Witness ==
  \E c \in Clients :
    /\ Shows(c, AlertDonated)
    /\ ~disturbed[c]
    /\ raised0[c] = Num(100)
    /\ amt[c] = Num(300)
    /\ campaigns[id[c]].raised = Num(400)
    /\ AmountsOf(id[c]) = <<Num(100), Num(300)>>

\* C2: the store sets raised to the total the call computed from its own read
\* (newRaised), whatever raised has become since that read; so of two calls
\* that read the same raised, the later write drops the other's donation.
C2_WriteStoresOwnRead ==
  [][\A c \in Clients :
       (pc[c] = "updateDoc" /\ pc'[c] = "updated")
       => campaigns'[id[c]].raised = newRaised[c]]_vars

\* C2 witness: two donations of 100 on a campaign that started at 0 have both
\* ended, the log holds both and raised is 100.
C2_Witness ==
  /\ AllIdle
  /\ campaigns # <<>>
  /\ donations[1] = 2
  /\ campaigns[1].raised = Num(100)
  /\ AmountsOf(1) = <<Num(100), Num(100)>>

\* C3 as stated: once no donate call on a campaign is in progress, the campaign
\* has exactly one Transaction for every call on it that passed validation.
C3_OneTransactionPerValidatedCall ==
  \A i \in 1..Len(campaigns) :
    (\A c \in Clients : ~(InFlight(c) /\ id[c] = i))
    => Len(TxOf(transactions, i)) = donations[i]

\* C3 amended: a donate call whose three store calls succeed appends exactly one
\* Transaction, with its campaign id and its amount, whether or not it
\* overlapped other calls; a call that ends otherwise appends none; and no
\* other step changes the transaction log.
C3_SuccessfulCallAppendsOne ==
  [][/\ \A c \in Clients :
          (InFlight(c) /\ pc'[c] = "alert")
          => IF alerted' = AlertDonated
             THEN /\ Len(transactions') = Len(transactions) + 1
                  /\ SubSeq(transactions', 1, Len(transactions)) = transactions
                  /\ transactions'[Len(transactions')].campaignId = id[c]
                  /\ transactions'[Len(transactions')].amount = amt[c]
             ELSE transactions' = transactions
     /\ transactions' # transactions
          => \E c \in Clients : pc[c] = "addDoc" /\ pc'[c] = "alert"]_vars

\* C3 witness: a call that overlapped another one has just succeeded; the
\* campaign has both Transactions though raised has lost one of the donations.
C3_Witness ==
  \E c \in Clients :
    /\ Shows(c, AlertDonated)
    /\ disturbed[c]
    /\ Len(TxOf(transactions, id[c])) = 2
    /\ JSLess(campaigns[id[c]].raised, SumAmounts(TxOf(transactions, id[c])))

\* C4 as stated: a campaign's raised starts at 0, is never negative, and no
\* step makes it smaller than it was.
C4_RaisedNeverDecreases ==
  [][/\ \A i \in 1..Len(campaigns) :
          ~JSLess(campaigns'[i].raised, campaigns[i].raised)
     /\ \A i \in (Len(campaigns) + 1)..Len(campaigns') :
          campaigns'[i].raised = Num(0)
     /\ \A i \in 1..Len(campaigns') :
          ~JSLess(campaigns'[i].raised, Num(0))]_vars

\* C5 as stated: in every state, a campaign's raised is at most the sum of the
\* amounts of its Transactions.
C5_RaisedExplainedByTransactions ==
  \A i \in 1..Len(campaigns) :
    ~JSLess(SumAmounts(TxOf(transactions, i)), campaigns[i].raised)

\* C6: when the Transaction append of a donate call fails after its raised
\* update succeeded, the failing step changes neither collection; the call
\* then shows its alert and returns without another store call; and if the
\* call overlapped no other, raised is its value at the start plus the amount
\* while the campaign has the Transactions it had at the start.
C6_FailedAppendLeavesRaisedUpdated ==
  [][\A c \in Clients :
       /\ (pc[c] = "addDoc" /\ pc'[c] = "alert" /\ alerted' = AlertDonateFailed)
          => /\ UNCHANGED store
             /\ ~disturbed[c]
                  => /\ campaigns'[id[c]].raised = JSAdd(raised0[c], amt[c])
                     /\ Len(TxOf(transactions', id[c])) = tx0[c]
       /\ (pc[c] = "alert" /\ pc'[c] # "alert")
          => pc'[c] = "idle" /\ UNCHANGED store]_vars

\* C6 witness: a donation of 100 on a fresh campaign, overlapping no other, has
\* failed at the append: raised is 100 and the campaign has no Transaction.
C6_Witness ==
  \E c \in Clients :
    /\ Shows(c, AlertDonateFailed)
    /\ pending[c].kind = "transaction"
    /\ ~disturbed[c]
    /\ raised0[c] = Num(0)
    /\ campaigns[id[c]].raised = Num(100)
    /\ TxOf(transactions, id[c]) = <<>>

\* an amount that is zero, negative or not a number (the empty field is 0)
NotPositive(n) == n.k = "nan" \/ (n.k = "num" /\ n.v <= 0)

\* C7: a donate call of a signed-in user whose amount is zero, negative, empty
\* or not a number shows the amount alert at once, with no store call issued,
\* and returns; neither step changes a campaign or the transaction log.
C7_InvalidAmountChangesNothing ==
  [][\A c \in Clients :
       /\ \A user \in Uids, i \in PageIds, input \in AmountInputs :
            (pc[c] = "idle" /\ pc'[c] # "idle" /\ NotPositive(Number(input))
               /\ Donate(c, user, i, input))
            => /\ pc'[c] = "alert"
               /\ alerted' = AlertAmount
               /\ pending'[c] = NoDoc
               /\ UNCHANGED store
       /\ (Shows(c, AlertAmount) /\ pc'[c] # pc[c])
            => pc'[c] = "idle" /\ UNCHANGED store]_vars

\* C7 witness: a donation of -5 on a campaign that has raised 100 was refused.
C7_Witness ==
  \E c \in Clients :
    /\ Shows(c, AlertAmount)
    /\ amt[c] = Num(-5)
    /\ Exists(id[c])
    /\ campaigns[id[c]].raised = Num(100)

\* C8 as stated: a donate call whose amount is Infinity is refused like any
\* other invalid amount, so no step of it changes a campaign or the log.
C8_InfiniteAmountRejected ==
  [][\A c \in Clients :
       (amt[c] = Infinity /\ pc'[c] # pc[c]) => UNCHANGED store]_vars

\* the form is valid in the words of the claim
ValidForm(f) ==
  /\ Trim(f.title) # <<>>
  /\ Trim(f.category) # <<>>
  /\ Trim(f.description) # <<>>
  /\ JSLess(Num(0), Number(f.target))

\* C9: createCampaign with a valid form by a signed-in user builds a Campaign
\* with raised 0, the supplied target and the user's id as creator; when its
\* addDoc succeeds exactly that Campaign is added, the campaigns that existed
\* are unchanged and so are all Transactions.
C9_CreateAddsOneCampaign ==
  [][\A c \in Clients :
       /\ \A user \in Uids, f \in Forms :
            (pc[c] = "idle" /\ pc'[c] # "idle" /\ ValidForm(f)
               /\ CreateCampaign(c, user, f.title, f.category, f.target, f.description))
            => /\ pc'[c] = "addCampaign"
               /\ pending'[c].raised = Num(0)
               /\ pending'[c].target = Number(f.target)
               /\ pending'[c].creator = user
               /\ pending'[c].createdAt = now
               /\ UNCHANGED store
       /\ (pc[c] = "addCampaign" /\ pc'[c] = "alert" /\ alerted' = AlertCreated)
            => /\ Len(campaigns') = Len(campaigns) + 1
               /\ SubSeq(campaigns', 1, Len(campaigns)) = campaigns
               /\ campaigns'[Len(campaigns')] = pending[c]
               /\ transactions' = transactions]_vars

\* C9 witness: a second campaign was just created, with raised 0 and target
\* 1000, beside a campaign that has raised 100.
C9_Witness ==
  \E c \in Clients :
    /\ Shows(c, AlertCreated)
    /\ Len(campaigns) = 2
    /\ campaigns[2].raised = Num(0)
    /\ campaigns[2].target = Num(1000)
    /\ campaigns[2].creator \in Uids
    /\ campaigns[1].raised = Num(100)
    /\ transactions # <<>>

\* C10: createCampaign by a signed-in user with a title, category or
\* description that is empty after trimming, or a target that is missing, not
\* a number, zero or negative, shows an alert with no store call issued and
\* changes nothing; and every stored Campaign has a target above 0.
C10_InvalidFormInsertsNothing ==
  [][/\ \A c \in Clients, user \in Uids, f \in Forms :
          (pc[c] = "idle" /\ pc'[c] # "idle" /\ ~ValidForm(f)
             /\ CreateCampaign(c, user, f.title, f.category, f.target, f.description))
          => /\ pc'[c] = "alert"
             /\ alerted' \in {AlertFields, AlertTarget}
             /\ pending'[c] = NoDoc
             /\ UNCHANGED store
     /\ \A i \in 1..Len(campaigns') : JSLess(Num(0), campaigns'[i].target)]_vars

\* C10 witness: a form with a bad target was refused while a campaign exists.
C10_Witness ==
  \E c \in Clients :
    /\ Shows(c, AlertTarget)
    /\ campaigns # <<>>

\* C11: donate and createCampaign called while no user is signed in show the
\* login alert at once, with no store call issued, and return (to the login
\* page) when it is dismissed; neither step changes a campaign or the
\* transaction log.
C11_NoUserChangesNothing ==
  [][\A c \in Clients :
       /\ \A i \in PageIds, input \in AmountInputs :
            (pc[c] = "idle" /\ pc'[c] # "idle" /\ Donate(c, NoUser, i, input))
            => /\ pc'[c] = "alert"
               /\ alerted' = AlertLoginDonate
               /\ pending'[c] = NoDoc
               /\ UNCHANGED store
       /\ \A f \in Forms :
            (pc[c] = "idle" /\ pc'[c] # "idle"
               /\ CreateCampaign(c, NoUser, f.title, f.category, f.target, f.description))
            => /\ pc'[c] = "alert"
               /\ alerted' = AlertLogin
               /\ pending'[c] = NoDoc
               /\ UNCHANGED store
       /\ (pc[c] = "alert" /\ alerted \in {AlertLoginDonate, AlertLogin}
             /\ pc'[c] # pc[c])
            => pc'[c] = "idle" /\ UNCHANGED store]_vars

\* C11 witness: a donate call without a signed-in user on a campaign that has
\* raised 100 was sent to the login page.
C11_Witness ==
  \E c \in Clients :
    /\ Shows(c, AlertLoginDonate)
    /\ Exists(id[c])
    /\ campaigns[id[c]].raised = Num(100)
    /\ amt[c] = Undefined

\* campaign document b is document a but for its raised
SameButRaised(a, b) == [b EXCEPT !.raised = a.raised] = a

\* C12: every step keeps the Transactions there are, unchanged and in place,
\* and keeps the Campaigns there are, each unchanged but for its raised; the
\* step of a donate call that writes raised for campaign X leaves every other
\* campaign as it is; the other steps leave the stored raised alone.
C12_OnlyRaisedChanges ==
  [][/\ Len(transactions') >= Len(transactions)
     /\ SubSeq(transactions', 1, Len(transactions)) = transactions
     /\ Len(campaigns') >= Len(campaigns)
     /\ \A i \in 1..Len(campaigns) : SameButRaised(campaigns[i], campaigns'[i])
     /\ \A c \in Clients :
          IF pc[c] = "updateDoc" /\ pc'[c] = "updated"
          THEN \A i \in 1..Len(campaigns) :
                 i # id[c] => campaigns'[i] = campaigns[i]
          ELSE pc'[c] # pc[c]
                 => SubSeq(campaigns', 1, Len(campaigns)) = campaigns]_vars

\* C12 witness: a donation has been written to the first of two campaigns: its
\* raised is 100, its target still 1000, and the second campaign is as it
\* was created.
C12_Witness ==
  \E c \in Clients :
    /\ pc[c] = "updated"
    /\ id[c] = 1
    /\ Len(campaigns) = 2
    /\ campaigns[1].raised = Num(100)
    /\ campaigns[1].target = Num(1000)
    /\ campaigns[1].creator \in Uids
    /\ campaigns[2].raised = Num(0)
    /\ campaigns[2].target = Num(1000)

\* the list of loader l shows the result of a query
Listed(l) == view[l].shown \in {"rows", "No donations yet"}

\* C13: a transaction list that was loaded for campaign id i shows exactly the
\* Transactions whose campaignId is i, each once, no row with an earlier time
\* above one with a later time, and shows "No donations yet" exactly when
\* there is no such Transaction; and the lists of donate.js and campaign.js,
\* loaded for the same id, show the same rows in the same order.
C13_ListIsFilteredNewestFirst ==
  /\ \A l \in Loaders :
       Listed(l) =>
         LET rows == view[l].rows
             docs == Docs(transactions, names)
         IN /\ Range(rows)
                 = {d \in Range(docs) : d.data.campaignId = view[l].id}
            /\ \A j, k \in 1..Len(rows) : rows[j].name = rows[k].name => j = k
            /\ \A k \in 1..(Len(rows) - 1) :
                 rows[k].data.time >= rows[k + 1].data.time
            /\ view[l].shown = "No donations yet"
                 <=> \A k \in 1..Len(transactions) :
                       transactions[k].campaignId # view[l].id
  /\ (Listed("donate.js") /\ Listed("campaign.js")
        /\ view["donate.js"].id = view["campaign.js"].id)
       => view["donate.js"] = view["campaign.js"]

\* C13 witness: both pages list campaign 1 of a store that holds a Transaction
\* of campaign 2 and two of campaign 1, inserted oldest first: the lists show
\* the two of campaign 1, newest first.
C13_Witness ==
  /\ Len(transactions) = 3
  /\ transactions[1].campaignId = 1 /\ transactions[1].time = 1
  /\ transactions[2].campaignId = 2
  /\ transactions[3].campaignId = 1 /\ transactions[3].time = 2
  /\ view["donate.js"].shown = "rows"
  /\ view["donate.js"].id = 1
  /\ view["donate.js"].rows
       = <<[name |-> names[3], data |-> transactions[3]],
           [name |-> names[1], data |-> transactions[1]]>>
  /\ view["campaign.js"] = view["donate.js"]

\* how far a call has come
Rank(p) ==
  CASE p = "idle" -> 0
    [] p \in {"getDoc", "addCampaign"} -> 1
    [] p = "updateDoc" -> 2
    [] p = "updated" -> 3
    [] p = "addDoc" -> 4
    [] p = "alert" -> 5

\* C14: the step at which the campaign read of a donate call fails or finds no
\* campaign, or at which its raised update fails, changes neither collection
\* and ends the call with no append issued; a call that overlapped no other
\* then leaves raised and the Transactions of its campaign as they were when
\* it began.  A call only moves forward through its steps until it returns,
\* so it has its raised update applied at most once and its Transaction
\* appended at most once; and raised and the log change at those steps only.
C14_FailureIsTerminal ==
  [][/\ \A c \in Clients :
          /\ (pc[c] \in {"getDoc", "updateDoc"} /\ pc'[c] = "alert")
               => /\ alerted' \in {AlertNotFound, AlertDonateFailed}
                  /\ UNCHANGED store
                  /\ pending'[c] = NoDoc
                  /\ ~disturbed[c]
                       => /\ Exists(id[c])
                               => campaigns'[id[c]].raised = raised0[c]
                          /\ Len(TxOf(transactions', id[c])) = tx0[c]
          /\ pc'[c] # pc[c]
               => IF pc[c] = "alert" THEN pc'[c] = "idle" /\ UNCHANGED store
                  ELSE Rank(pc'[c]) > Rank(pc[c])
     /\ \A i \in 1..Len(campaigns) :
          campaigns'[i].raised # campaigns[i].raised
            => \E c \in Clients :
                 pc[c] = "updateDoc" /\ pc'[c] = "updated" /\ id[c] = i
     /\ transactions' # transactions
          => /\ Len(transactions') = Len(transactions) + 1
             /\ \E c \in Clients : pc[c] = "addDoc" /\ pc'[c] = "alert"]_vars

\* C14 witness: on a campaign that has raised 100 in one Transaction, a donation
\* of 100 that overlapped no other has failed at its raised update: raised is
\* still 100 and the campaign still has the one Transaction.
C14_Witness ==
  \E c \in Clients :
    /\ Shows(c, AlertDonateFailed)
    /\ pending[c] = NoDoc
    /\ newRaised[c] = Num(200)
    /\ ~disturbed[c]
    /\ campaigns[id[c]].raised = Num(100)
    /\ AmountsOf(id[c]) = <<Num(100)>>

\* C15: a donate call issues its raised update only once its read has
\* resolved, and its Transaction append only once its raised update has been
\* applied; the log changes only when an issued append is applied; hence after
\* every step a campaign has at most as many Transactions as raised updates
\* have been applied to it.
C15_ReadWriteAppendInOrder ==
  [][/\ \A c \in Clients :
          pc'[c] # pc[c]
            => /\ pc'[c] = "getDoc" => pc[c] = "idle"
               /\ pc'[c] = "updateDoc"
                    => pc[c] = "getDoc" /\ newRaised'[c] # Undefined
               /\ pc'[c] = "updated"
                    => /\ pc[c] = "updateDoc"
                       /\ updates'[id[c]] = updates[id[c]] + 1
               /\ pc'[c] = "addDoc"
                    => pc[c] = "updated" /\ pending'[c].campaignId = id[c]
               /\ transactions' # transactions => pc[c] = "addDoc"
     /\ \A i \in 1..Len(campaigns') :
          Len(TxOf(transactions', i)) <= updates'[i]]_vars

\* C15 witness: the second donation on a campaign has had its raised update
\* applied and its append issued: two updates applied, one Transaction.
C15_Witness ==
  \E c \in Clients :
    /\ pc[c] = "addDoc"
    /\ pending[c].amount = Num(300)
    /\ updates[id[c]] = 2
    /\ AmountsOf(id[c]) = <<Num(100)>>

\* C16: in the runs in which no store call fails, a campaign on which no donate
\* call is between its validation and its end has a raised that is at most
\* the sum of the amounts of its Transactions.
C16_QuiescentRaisedWithinLedger ==
  \A i \in 1..Len(campaigns) :
    (\A c \in Clients : ~(InFlight(c) /\ id[c] = i))
    => ~JSLess(SumAmounts(TxOf(transactions, i)), campaigns[i].raised)

\* C16 witness: donations of 100 and 300 that both read raised 0 have ended;
\* the later write won, so raised is 300 while the Transactions sum to 400.
C16_Witness ==
  /\ AllIdle
  /\ campaigns # <<>>
  /\ updates[1] = 2
  /\ campaigns[1].raised = Num(300)
  /\ AmountsOf(1) = <<Num(300), Num(100)>>

====
